---- MODULE Spec2Model ----
(***************************************************************************)
(* NestTask client-side data synchronisation and caching layer.            *)
(*                                                                         *)
(*  - the in-memory cache utility (memoryCache, setCache, getCache,         *)
(*    isCacheValid, invalidateCache, clearCacheByPrefix, clearAllCache)     *)
(*  - the task hook useTasks: loadTasks with its abort controller,         *)
(*    de-duplication, throttling, cache-first display, timeout race,       *)
(*    retry with backoff, and the create/update/delete mutations.          *)
(*                                                                         *)
(* Time is in milliseconds, as Date.now() gives it.                        *)
(***************************************************************************)
EXTENDS Integers, Sequences, FiniteSets, TLC

(***************************************************************************)
(* Bounds of the model.                                                    *)
(***************************************************************************)
\* the memory-cache clock runs from 1 to MaxCacheNow
MaxCacheNow == 3
\* the largest max age (ms) a caller of isCacheValid passes
MaxMaxAge == 2
\* the number of memory-cache operations of one behaviour
MaxCacheOps == 3
ExpiryMaxWaits == 2     \* waits of the documented default expiry time

VARIABLES
    \* ---- memory cache (utils/cache) ----
    now,            \* Date.now()
    memoryCache,    \* own properties of the memoryCache object: key -> entry
    memProto,       \* the prototype of the memoryCache object
    mcOp,           \* the last cache operation, its arguments and its result
    mcOps,          \* number of cache operations so far
    \* ---- useTasks: React state and props ----
    userId,         \* the hook's argument
    isOffline,      \* useOfflineStatus()
    mounted,        \* the component that owns the hook is mounted
    devMode,        \* process.env.NODE_ENV === 'development'
    tasks, loading, error, retryCount,
    \* ---- useTasks: refs ----
    loadingRef, lastLoadTimeRef, isMountedRef, abortControllerRef,
    tabSwitchRecoveryRef,
    \* ---- module level ----
    tasksCache,     \* Map userId -> {tasks, timestamp}
    \* ---- the event loop ----
    calls,          \* the invocations of loadTasks that are suspended at an await
    nCalls,         \* how many invocations reached the try block so far
    timers,         \* pending setTimeout callbacks, in the order they were set
    effect,         \* the last run of the main effect: its closure and listeners
    mutation,       \* the create/update/delete call that awaits the remote
    peer,           \* the useTasks of AdminDashboard, rendered under App
    \* ---- useAuth and TaskManager ----
    auth,           \* useAuth: its state and the checkSession in progress
    admin,          \* TaskManager: its props, its state and its bulk operation
    \* ---- observation ----
    ev,             \* what the last step did
    bound,          \* the bounds of this run: calls, events, ticks
    count           \* counters of the environment's events and of remote calls

cacheVars == <<memoryCache, memProto, mcOp, mcOps>>
useTasksVars == <<userId, isOffline, mounted, devMode, tasks, loading, error,
                  retryCount, loadingRef, lastLoadTimeRef, isMountedRef,
                  abortControllerRef, tabSwitchRecoveryRef, tasksCache, calls,
                  nCalls, timers, effect, mutation, peer, ev, bound, count>>
hookVars == <<useTasksVars, auth, admin>>

(***************************************************************************)
(* Memory cache: const memoryCache: Record<string, any> = {}               *)
(*                                                                         *)
(* Keys are strings, modelled as sequences of characters so that           *)
(* String.prototype.startsWith can be computed.  memoryCache is a plain    *)
(* object: a property read memoryCache[key] that finds no own property     *)
(* goes on to the prototype chain, and the key "__proto__" is the          *)
(* accessor of Object.prototype, which reads and sets the prototype        *)
(* instead of an own property.                                             *)
(***************************************************************************)
KeyT      == <<"t">>
KeyT1     == <<"t", "1">>
KeyC      == <<"c">>
KeyData   == <<"d", "a", "t", "a">>
KeyProto  == <<"_", "_", "p", "r", "o", "t", "o", "_", "_">>
KeyConstructor == <<"c", "o", "n", "s", "t", "r", "u", "c", "t", "o", "r">>

\* no modelled key names a member of Object.prototype (KeyConstructor is one)
Keys      == {KeyT, KeyT1, KeyC, KeyData, KeyProto}
Prefixes  == {<<>>, <<"t">>, <<"t", "1">>, <<"c">>, <<"_">>}

\* isCacheValid(key) called without maxAge: the parameter is undefined,
\* which `if (maxAge)` treats as it treats 0
Omitted   == 0

\* "Cache expiration is set to 10 minutes by default"; the constant of that
\* value in the sources belongs to the route prefetcher
MAX_CACHE_AGE == 600000

\* the data a caller stores; 0 is a falsy JavaScript value
Values    == {0, 1, 2}
\* the max ages a caller passes; 0 is falsy, like an omitted argument
MaxAges   == 0..MaxMaxAge

\* JavaScript values that a read of memoryCache[key] can give
Undefined == [t |-> "undefined"]
Null      == [t |-> "null"]
ObjectPrototype == [t |-> "Object.prototype"]
Fn        == [t |-> "function"]
Num(n)    == [t |-> "value", v |-> n]
Entry(d, ts) == [t |-> "entry", data |-> d, timestamp |-> ts]

\* JavaScript truthiness, as `if (!cached)` and `if (maxAge)` test it
Truthy(x) ==
    CASE x.t = "undefined" -> FALSE
      [] x.t = "null"      -> FALSE
      [] x.t = "value"     -> x.v # 0
      [] OTHER             -> TRUE

\* String.prototype.startsWith
StartsWith(key, prefix) ==
    /\ Len(prefix) <= Len(key)
    /\ SubSeq(key, 1, Len(prefix)) = prefix

\* property lookup on Object.prototype
ObjectPrototypeGet(key) ==
    IF key = KeyConstructor THEN Fn ELSE Undefined

\* property lookup on the prototype of memoryCache
ProtoGet(key) ==
    IF memProto.t = "entry"
    THEN CASE key = KeyData -> Num(memProto.data)
           [] key = <<"t", "i", "m", "e", "s", "t", "a", "m", "p">> -> Num(memProto.timestamp)
           [] OTHER -> ObjectPrototypeGet(key)
    ELSE ObjectPrototypeGet(key)

\* memoryCache[key]
CacheRead(key) ==
    IF key = KeyProto THEN memProto
    ELSE IF memoryCache[key] # Undefined THEN memoryCache[key]
    ELSE ProtoGet(key)

\* Object.keys(memoryCache): the own enumerable properties
ObjectKeys == {k \in Keys : memoryCache[k] # Undefined}

\* cached.data for a truthy `cached`
DataOf(cached) == IF cached.t = "entry" THEN Num(cached.data) ELSE Undefined

\* getCache(key)
getCache(key) ==
    LET cached == CacheRead(key)
    IN  IF ~Truthy(cached) THEN Null ELSE DataOf(cached)

\* isCacheValid(key, maxAge); age is NaN when cached has no timestamp
isCacheValid(key, maxAge) ==
    LET cached == CacheRead(key)
    IN  IF ~Truthy(cached) THEN FALSE
        ELSE IF maxAge # 0
             THEN IF cached.t = "entry" THEN now - cached.timestamp < maxAge
                  ELSE FALSE
             ELSE TRUE

\* memoryCache[key] = value
CacheWriteOwn(key, value) == [memoryCache EXCEPT ![key] = value]

\* delete memoryCache[key]
CacheDelete(key) ==
    IF key = KeyProto THEN memoryCache
    ELSE [memoryCache EXCEPT ![key] = Undefined]

\* the entry setCache stores
NewEntry(data) == Entry(data, now)

Record(op, key, arg, result) ==
    [op |-> op, key |-> key, arg |-> arg, result |-> result]

setCache(key, data) ==
    /\ mcOps < MaxCacheOps
    /\ IF key = KeyProto
       THEN /\ memProto' = NewEntry(data)
            /\ memoryCache' = memoryCache
       ELSE /\ memoryCache' = CacheWriteOwn(key, NewEntry(data))
            /\ memProto' = memProto
    /\ mcOp' = Record("set", key, data, Undefined)
    /\ mcOps' = mcOps + 1
    /\ UNCHANGED <<now, hookVars>>

\* a caller reads an entry; the result is recorded in mcOp
GetCacheCall(key) ==
    /\ mcOps < MaxCacheOps
    /\ mcOp' = Record("get", key, 0, getCache(key))
    /\ mcOps' = mcOps + 1
    /\ UNCHANGED <<now, memoryCache, memProto, hookVars>>

\* a caller asks for validity; the result is recorded in mcOp
IsCacheValidCall(key, maxAge) ==
    /\ mcOps < MaxCacheOps
    /\ mcOp' = Record("isValid", key, maxAge, isCacheValid(key, maxAge))
    /\ mcOps' = mcOps + 1
    /\ UNCHANGED <<now, memoryCache, memProto, hookVars>>

invalidateCache(key) ==
    /\ mcOps < MaxCacheOps
    /\ memoryCache' = CacheDelete(key)
    /\ mcOp' = Record("invalidate", key, 0, Undefined)
    /\ mcOps' = mcOps + 1
    /\ UNCHANGED <<now, memProto, hookVars>>

clearCacheByPrefix(prefix) ==
    /\ mcOps < MaxCacheOps
    /\ memoryCache' = [k \in Keys |->
           IF k \in ObjectKeys /\ StartsWith(k, prefix)
           THEN Undefined ELSE memoryCache[k]]
    /\ mcOp' = Record("clearByPrefix", prefix, 0, Undefined)
    /\ mcOps' = mcOps + 1
    /\ UNCHANGED <<now, memProto, hookVars>>

clearAllCache ==
    /\ mcOps < MaxCacheOps
    /\ memoryCache' = [k \in Keys |->
           IF k \in ObjectKeys THEN Undefined ELSE memoryCache[k]]
    /\ mcOp' = Record("clearAll", <<>>, 0, Undefined)
    /\ mcOps' = mcOps + 1
    /\ UNCHANGED <<now, memProto, hookVars>>

\* the clock of the cache advances by one millisecond
CacheTick ==
    /\ now < MaxCacheNow
    /\ now' = now + 1
    /\ UNCHANGED <<memoryCache, memProto, mcOp, mcOps, hookVars>>

\* the documented default expiry time passes, and one millisecond more
CacheWait ==
    /\ now + MAX_CACHE_AGE + 1 <= 1 + ExpiryMaxWaits * (MAX_CACHE_AGE + 1)
    /\ now' = now + MAX_CACHE_AGE + 1
    /\ UNCHANGED <<memoryCache, memProto, mcOp, mcOps, hookVars>>

(***************************************************************************)
(* useTasks(userId)                                                        *)
(*                                                                         *)
(* JavaScript runs one handler at a time, to its end or to its next        *)
(* await: every action below is one such run.  A handler is written as an  *)
(* operator from the state before it (a record of all the variables) to    *)
(* the state after it, so that a handler that calls loadTasks is the       *)
(* composition of its own code with loadTasks.  React re-renders when a    *)
(* state or prop changed and then re-runs the effect whose dependencies    *)
(* changed: Rerender is applied at the end of every action.                *)
(***************************************************************************)
\* ---- bounds ----
\* Spec: every action of the hook and of its environment
MaxCalls == 2           \* invocations of loadTasks that reach the try block
MaxEvents == 2          \* events of the environment: realtime notifications,
                        \* visibility changes, interval runs, refreshTasks
                        \* calls, changes of userId or connectivity, mutations
MaxTicks == 1           \* advances of the clock
\* SpecLoad: loads only, for more of them
LoadMaxCalls == 3
LoadMaxEvents == 3
LoadMaxTicks == 3
\* SpecRetry: loads that fail, and their retries
RetryMaxCalls == 4
RetryMaxEvents == 3
RetryMaxTicks == 3
\* the most invocations any specification allows
RecoverMaxCalls == 5
RecoverMaxEvents == 1
RecoverMaxTicks == 7

ForceMaxCalls == 4
ForceMaxEvents == 2
ForceMaxTicks == 3

ReleaseMaxEvents == 2
ReleaseMaxTicks == 24

AnswerMaxCalls == 4
AnswerMaxEvents == 2
AnswerMaxTicks == 12

AuthMaxChecks == 10
AdminMaxTasks == 4
AdminMaxOps == 1

MutateMaxCalls == 2
MutateMaxEvents == 3
MutateMaxTicks == 1

TwoMaxCalls == 2
TwoMaxEvents == 2

CallSlots == 6
MaxTaskId == 2          \* task ids are 1..MaxTaskId
T0 == 1000000           \* Date.now() when the hook is constructed

\* ---- constants of the source ----
CACHE_TTL == 300000
TASK_FETCH_TIMEOUT == 45000
MAX_RETRIES_TIMEOUT == 5
MAX_RETRIES_OTHER == 3
THROTTLE_NORMAL == 3000
THROTTLE_RECOVERY == 1000
LOADING_REF_DELAY == 100
INITIAL_REFRESH_DELAY == 100
BACKOFF_BASE == 1000
BACKOFF_CAP == 15000
JITTER_RANGE == 1000
VISIBILITY_STUCK == 20000
POLL_INTERVAL == 5000
POLL_GRACE == 5000

NoUser == "undefined"
Users == {"u1", "u2"}
NoError == "null"
NoEntry == [tasks |-> <<>>, timestamp |-> -1]

Task(id, rev) == [id |-> id, rev |-> rev]
TaskIds == 1..MaxTaskId
\* the lists the remote answers a task query with
FetchLists == {<<Task(1, 0), Task(2, 0)>>, <<Task(2, 0)>>}
\* Math.floor(Math.random() * 1000), at its two ends
Jitters == {0, JITTER_RANGE - 1}
\* the steps the clock advances by when no timer is due earlier
TickSteps == {THROTTLE_RECOVERY, THROTTLE_NORMAL}

NoClosure == [user |-> "unset", rc |-> 0, off |-> FALSE]
NoController == [owner |-> -1, aborted |-> FALSE]
NoCall == [pc |-> "none", user |-> NoUser, rc |-> 0, off |-> FALSE,
           force |-> FALSE, aborted |-> FALSE, callTime |-> 0,
           sawForce |-> FALSE]
DoneCall == [NoCall EXCEPT !.pc = "done"]
NoMutation == [op |-> "none", user |-> NoUser, task |-> Task(0, 0)]
\* ev: kind is "settle" when an invocation of loadTasks ended, "call" when
\* the step was a call of loadTasks and nothing else, "mutation" and
\* "mutationSettle" for the mutations; load is how far a call of loadTasks
\* in this step went, force its option, user its userId
QuietEv == [kind |-> "other", outcome |-> "", load |-> "none", force |-> FALSE,
            user |-> NoUser]
CallIds == 1..CallSlots

\* the state as one record, and back
Cur == [now |-> now, userId |-> userId, isOffline |-> isOffline,
        mounted |-> mounted, devMode |-> devMode, tasks |-> tasks,
        loading |-> loading, error |-> error, retryCount |-> retryCount,
        loadingRef |-> loadingRef, lastLoadTimeRef |-> lastLoadTimeRef,
        isMountedRef |-> isMountedRef,
        abortControllerRef |-> abortControllerRef,
        tabSwitchRecoveryRef |-> tabSwitchRecoveryRef,
        tasksCache |-> tasksCache, calls |-> calls, nCalls |-> nCalls,
        timers |-> timers, effect |-> effect, mutation |-> mutation,
        ev |-> QuietEv, bound |-> bound, count |-> count]

Install(s) ==
    /\ s.nCalls <= s.bound.calls
    /\ now' = s.now /\ userId' = s.userId /\ isOffline' = s.isOffline
    /\ mounted' = s.mounted /\ devMode' = s.devMode /\ tasks' = s.tasks
    /\ loading' = s.loading /\ error' = s.error
    /\ retryCount' = s.retryCount /\ loadingRef' = s.loadingRef
    /\ lastLoadTimeRef' = s.lastLoadTimeRef
    /\ isMountedRef' = s.isMountedRef
    /\ abortControllerRef' = s.abortControllerRef
    /\ tabSwitchRecoveryRef' = s.tabSwitchRecoveryRef
    /\ tasksCache' = s.tasksCache /\ calls' = s.calls /\ nCalls' = s.nCalls
    /\ timers' = s.timers /\ effect' = s.effect /\ mutation' = s.mutation
    /\ ev' = s.ev /\ bound' = s.bound /\ count' = s.count
    /\ peer' = peer
    /\ UNCHANGED <<cacheVars, auth, admin>>

\* a React state setter: a no-op once the component is unmounted
SetState(s, field, value) ==
    IF s.mounted THEN [s EXCEPT ![field] = value] ELSE s

\* setRetryCount(0)
ResetRetryCount(s) ==
    [SetState(s, "retryCount", 0) EXCEPT !.count.retries = 0,
                                         !.count.timeoutRetries = 0]

Timer(kind, due, call, cl) == [kind |-> kind, due |-> due, call |-> call, cl |-> cl]
SetTimeout(s, kind, delay, call, cl) ==
    [s EXCEPT !.timers = Append(@, Timer(kind, s.now + delay, call, cl))]

\* abortControllerRef.current.abort(), when there is a controller
AbortCurrent(s) ==
    IF s.abortControllerRef.owner = -1 THEN s
    ELSE [s EXCEPT !.abortControllerRef.aborted = TRUE,
                   !.calls = [c \in CallIds |->
                       IF c = s.abortControllerRef.owner
                       THEN [s.calls[c] EXCEPT !.aborted = TRUE]
                       ELSE s.calls[c]]]

\* new AbortController(), not yet owned by a suspended invocation
NewController(s) ==
    [s EXCEPT !.abortControllerRef = [owner |-> 0, aborted |-> FALSE]]

HasCache(s, user) == s.tasksCache[user] # NoEntry

\* fetchTasks(userId, signal) is called and raced against the timeout timer
IssueFetch(s, id) ==
    [SetTimeout(s, "fetchTimeout", TASK_FETCH_TIMEOUT, id, NoClosure)
        EXCEPT !.calls[id].pc = "fetch", !.count.queries = @ + 1]

\* the try block with setLoading(true) whatever the cache holds
TryBlockAlwaysLoading(s, cl, force) ==
    LET id == s.nCalls + 1
        s1 == IF s.isMountedRef THEN SetState(s, "loading", TRUE) ELSE s
        s2 == [s1 EXCEPT !.loadingRef = TRUE]
        s3 == IF s2.isMountedRef THEN SetState(s2, "error", NoError) ELSE s2
        call == [pc |-> "pre", user |-> cl.user, rc |-> cl.rc, off |-> cl.off,
                 force |-> force, aborted |-> FALSE, callTime |-> s.now,
                 sawForce |-> FALSE]
        s4 == [s3 EXCEPT !.nCalls = id, !.calls[id] = call,
                         !.abortControllerRef.owner = id]
    IN  IF s.devMode THEN IssueFetch(s4, id) ELSE s4

\* lines 103-112 and, in development mode, on to the fetch
TryBlock(s, cl, force) ==
    LET id == s.nCalls + 1
        s1 == IF (~HasCache(s, cl.user) \/ force) /\ s.isMountedRef
              THEN SetState(s, "loading", TRUE) ELSE s
        s2 == [s1 EXCEPT !.loadingRef = TRUE]
        s3 == IF s2.isMountedRef THEN SetState(s2, "error", NoError) ELSE s2
        call == [pc |-> "pre", user |-> cl.user, rc |-> cl.rc, off |-> cl.off,
                 force |-> force, aborted |-> FALSE, callTime |-> s.now,
                 sawForce |-> FALSE]
        s4 == [s3 EXCEPT !.nCalls = id, !.calls[id] = call,
                         !.abortControllerRef.owner = id]
    IN  IF s.devMode THEN IssueFetch(s4, id) ELSE s4

\* the throttle window of line 77
ThrottleTime(s) ==
    IF s.tabSwitchRecoveryRef THEN THROTTLE_RECOVERY ELSE THROTTLE_NORMAL

\* lines 51-58: cancel any ongoing request, create a new abort controller
CancelOngoing(s) ==
    NewController(AbortCurrent(s))

\* lines 60-66
ForceReset(s) ==
    LET a == [s EXCEPT !.tabSwitchRecoveryRef = TRUE,
                       !.calls = [c \in CallIds |->
                           IF s.calls[c].pc \in {"pre", "fetch"}
                           THEN [s.calls[c] EXCEPT !.sawForce = TRUE]
                           ELSE s.calls[c]]]
    IN  IF a.isMountedRef THEN ResetRetryCount(a) ELSE a

\* the valid-cache branch entered after loadingRef.current = true
UseCachedSetsMarker(s, cached) ==
    IF s.isMountedRef
    THEN [SetState(SetState(SetState(s, "tasks", cached.tasks),
                            "loading", FALSE), "error", NoError)
             EXCEPT !.loadingRef = TRUE]
    ELSE [s EXCEPT !.loadingRef = TRUE]

\* lines 84-101, the valid-cache branch
UseCached(s, cached) ==
    IF s.isMountedRef
    THEN SetState(SetState(SetState(s, "tasks", cached.tasks),
                           "loading", FALSE), "error", NoError)
    ELSE s

\* loadTasks(options), up to its first await: cl is the closure of the
\* useCallback that is called (userId, retryCount, isOffline)
LoadTasks(s0, cl, force, via) ==
    LET Seen(s, o) == [s EXCEPT !.ev.load = o, !.ev.force = force,
                                !.ev.user = cl.user,
                                !.ev.kind = IF @ = "other" THEN via ELSE @]
    IN  IF cl.user = NoUser THEN Seen(s0, "noUser")
        ELSE
        LET s1 == CancelOngoing(s0)
            s2 == IF force THEN ForceReset(s1) ELSE s1
            cached == s2.tasksCache[cl.user]
        IN  IF s2.loadingRef /\ ~force THEN Seen(s2, "dedup")
            ELSE IF ~force /\ s2.now - s2.lastLoadTimeRef < ThrottleTime(s2)
            THEN Seen(s2, "throttled")
            ELSE IF ~force /\ HasCache(s2, cl.user)
                    /\ s2.now - cached.timestamp < CACHE_TTL
            THEN Seen(UseCached(s2, cached), "cached")
            ELSE LET s3 == IF ~force /\ HasCache(s2, cl.user) /\ s2.isMountedRef
                           THEN SetState(s2, "tasks", cached.tasks) ELSE s2
                 IN  Seen(TryBlock(s3, cl, force), "started")

\* 2 ^ n
RECURSIVE Pow2(_)
Pow2(n) == IF n = 0 THEN 1 ELSE 2 * Pow2(n - 1)

Min(a, b) == IF a < b THEN a ELSE b

\* the delay without Math.min(..., 15000)
RetryDelayUncapped(n, randomOffset) == BACKOFF_BASE * Pow2(n) + randomOffset

\* line 211: Math.min(1000 * Math.pow(2, retryCount) + randomOffset, 15000)
RetryDelay(n, randomOffset) ==
    Min(BACKOFF_BASE * Pow2(n) + randomOffset, BACKOFF_CAP)

\* the catch block without the setError of its cached branch
CatchKeepsError(s, c, kind, randomOffset) ==
    LET call == s.calls[c]
        maxRetries == IF kind = "timeout" THEN MAX_RETRIES_TIMEOUT
                      ELSE MAX_RETRIES_OTHER
    IN  IF ~(s.isMountedRef /\ (s.abortControllerRef.owner = -1
                                \/ ~s.abortControllerRef.aborted))
        THEN s
        ELSE IF HasCache(s, call.user)
        THEN SetState(s, "tasks", s.tasksCache[call.user].tasks)
        ELSE LET s1 == SetState(s, "error", IF kind = "timeout"
                                            THEN "Task fetch timeout"
                                            ELSE "Failed to load tasks")
             IN  IF ~call.off /\ call.rc < maxRetries
                 THEN [SetTimeout(s1, "retry", RetryDelay(call.rc, randomOffset),
                                  0, NoClosure)
                          EXCEPT !.count.retries = @ + 1,
                                 !.count.timeoutRetries =
                                     IF kind = "timeout" THEN @ + 1 ELSE @]
                 ELSE IF call.rc >= maxRetries
                 THEN [s1 EXCEPT !.tabSwitchRecoveryRef = TRUE]
                 ELSE s1

\* lines 186-227; kind is "timeout" when err.message is 'Task fetch timeout'
Catch(s, c, kind, randomOffset) ==
    LET call == s.calls[c]
        maxRetries == IF kind = "timeout" THEN MAX_RETRIES_TIMEOUT
                      ELSE MAX_RETRIES_OTHER
    IN  IF ~(s.isMountedRef /\ (s.abortControllerRef.owner = -1
                                \/ ~s.abortControllerRef.aborted))
        THEN s
        ELSE IF HasCache(s, call.user)
        THEN SetState(SetState(s, "tasks", s.tasksCache[call.user].tasks),
                      "error", IF kind = "timeout"
                               THEN "Using cached data. Failed to refresh: Task fetch timeout after 45s"
                               ELSE "Using cached data. Failed to refresh")
        ELSE LET s1 == SetState(s, "error", IF kind = "timeout"
                                            THEN "Task fetch timeout"
                                            ELSE "Failed to load tasks")
             IN  IF ~call.off /\ call.rc < maxRetries
                 THEN [SetTimeout(s1, "retry", RetryDelay(call.rc, randomOffset),
                                  0, NoClosure)
                          EXCEPT !.count.retries = @ + 1,
                                 !.count.timeoutRetries =
                                     IF kind = "timeout" THEN @ + 1 ELSE @]
                 ELSE IF call.rc >= maxRetries
                 THEN [s1 EXCEPT !.tabSwitchRecoveryRef = TRUE]
                 ELSE s1

\* the finally block without the timeout that clears loadingRef
FinallyKeepsMarker(s, c, outcome) ==
    LET s1 == IF s.isMountedRef THEN SetState(s, "loading", FALSE) ELSE s
    IN  [s1 EXCEPT !.calls[c] = DoneCall,
                   !.abortControllerRef.owner = IF @ = c THEN 0 ELSE @,
                   !.ev.kind = "settle", !.ev.outcome = outcome]

\* lines 228-236; the invocation ends
Finally(s, c, outcome) ==
    LET s1 == IF s.isMountedRef THEN SetState(s, "loading", FALSE) ELSE s
        s2 == SetTimeout(s1, "clearLoadingRef", LOADING_REF_DELAY, 0, NoClosure)
    IN  [s2 EXCEPT !.calls[c] = DoneCall,
                   !.abortControllerRef.owner = IF @ = c THEN 0 ELSE @,
                   !.ev.kind = "settle", !.ev.outcome = outcome]

\* the success path without its tasksCache.set
SuccessWithoutCacheWrite(s, c, data) ==
    LET call == s.calls[c]
    IN  IF s.isMountedRef /\ ~call.aborted
        THEN LET s1 == SetState(s, "tasks", data)
                 s3 == [SetState(s1, "error", NoError)
                           EXCEPT !.lastLoadTimeRef = s.now]
             IN  [ResetRetryCount(s3) EXCEPT !.tabSwitchRecoveryRef = FALSE]
        ELSE s

\* lines 172-185
Success(s, c, data) ==
    LET call == s.calls[c]
    IN  IF s.isMountedRef /\ ~call.aborted
        THEN LET s1 == SetState(s, "tasks", data)
                 s2 == [s1 EXCEPT !.tasksCache[call.user] =
                                     [tasks |-> data, timestamp |-> s.now]]
                 s3 == [SetState(s2, "error", NoError)
                           EXCEPT !.lastLoadTimeRef = s.now]
             IN  [ResetRetryCount(s3) EXCEPT !.tabSwitchRecoveryRef = FALSE]
        ELSE s

\* lines 117-156: the awaits before the fetch, in a production build
Preflight(s, c, outcome, randomOffset) ==
    LET call == s.calls[c]
    IN  IF call.off
        THEN IF HasCache(s, call.user)
             THEN Finally(IF s.isMountedRef
                          THEN SetState(SetState(SetState(s,
                                   "tasks", s.tasksCache[call.user].tasks),
                                   "loading", FALSE),
                                   "error", "Using cached tasks while offline")
                          ELSE s, c, "offline")
             ELSE Finally(IF s.isMountedRef
                          THEN SetState(SetState(s, "tasks", <<>>),
                                   "error", "Cannot fetch tasks while offline")
                          ELSE s, c, "offline")
        ELSE IF outcome = "noConnection"
        THEN Finally(Catch(s, c, "other", randomOffset), c, "failed")
        ELSE IF outcome = "noSession"
        THEN Finally(s, c, "noSession")
        ELSE IF call.aborted
        THEN Finally(s, c, "aborted")
        ELSE IssueFetch(s, c)

\* lines 325-336: the cleanup the effect returns (only when it ran online)
Cleanup(s) ==
    IF s.effect.subscribed
    THEN AbortCurrent([s EXCEPT !.isMountedRef = FALSE,
                                !.effect.subscribed = FALSE])
    ELSE s

Closure(s) == [user |-> s.userId, rc |-> s.retryCount, off |-> s.isOffline]

\* lines 239-338: the body of the main effect
EffectBody(s) ==
    LET cl == Closure(s)
        s0 == [s EXCEPT !.effect.cl = cl]
    IN  IF s.userId = NoUser
        THEN SetState(SetState(s0, "tasks", <<>>), "loading", FALSE)
        ELSE
        LET s1 == [s0 EXCEPT !.isMountedRef = TRUE]
            s2 == IF HasCache(s1, s.userId)
                  THEN SetTimeout(
                         SetState(SetState(s1, "tasks", s1.tasksCache[s.userId].tasks),
                                  "loading", FALSE),
                         "initialRefresh", INITIAL_REFRESH_DELAY, 0, cl)
                  ELSE LoadTasks(s1, cl, FALSE, "effect")
        IN  IF ~s.isOffline
            THEN [s2 EXCEPT !.effect.subscribed = TRUE,
                            !.effect.pollDue = s.now + POLL_INTERVAL]
            ELSE s2

\* React renders again and re-runs the effect when userId, retryCount or
\* isOffline differ from those of the last run
Rerender(s) ==
    IF s.mounted /\ s.effect.cl # Closure(s)
    THEN EffectBody(Cleanup(s))
    ELSE s

\* lines 273-277: the realtime subscription's callback
OnRealtime(s) ==
    IF s.isMountedRef THEN LoadTasks(s, s.effect.cl, FALSE, "call") ELSE s

\* lines 281-309, with document.visibilityState === 'visible'
HandleVisibilityChange(s) ==
    LET s1 == [s EXCEPT !.loadingRef = FALSE]
        isStuck == s.now - s.lastLoadTimeRef > VISIBILITY_STUCK
        user == s.effect.cl.user
    IN  IF isStuck \/ s1.tabSwitchRecoveryRef
        THEN LoadTasks(s1, s.effect.cl, TRUE, "visibility")
        ELSE IF HasCache(s1, user)
        THEN IF s.now - s1.tasksCache[user].timestamp > CACHE_TTL
             THEN LoadTasks(s1, s.effect.cl, FALSE, "visibility")
             ELSE s1
        ELSE LoadTasks(s1, s.effect.cl, FALSE, "visibility")

\* lines 312-321: the interval's callback
PollCheck(s) ==
    LET s0 == [s EXCEPT !.effect.pollDue = s.now + POLL_INTERVAL]
    IN  IF s.loadingRef
           /\ s.now - s.lastLoadTimeRef > TASK_FETCH_TIMEOUT + POLL_GRACE
        THEN LET s1 == [s0 EXCEPT !.loadingRef = FALSE]
             IN  IF s1.isMountedRef
                 THEN [SetState(s1, "loading", FALSE)
                          EXCEPT !.tabSwitchRecoveryRef = TRUE]
                 ELSE s1
        ELSE s0

\* a setTimeout callback runs
RunTimer(s, t, randomOffset) ==
    CASE t.kind = "clearLoadingRef" -> [s EXCEPT !.loadingRef = FALSE]
      [] t.kind = "retry" ->
            IF s.isMountedRef
            THEN SetState(s, "retryCount", s.retryCount + 1) ELSE s
      [] t.kind = "initialRefresh" ->
            IF s.isMountedRef THEN LoadTasks(s, t.cl, FALSE, "call") ELSE s
      [] t.kind = "fetchTimeout" ->
            IF s.calls[t.call].pc = "fetch"
            THEN Finally(Catch(s, t.call, "timeout", randomOffset),
                         t.call, "timeout")
            ELSE s

RemoveAt(seq, i) == SubSeq(seq, 1, i - 1) \o SubSeq(seq, i + 1, Len(seq))

\* the earliest pending timer: smallest due time, first set among equals
NextTimer(s) ==
    CHOOSE i \in 1..Len(s.timers) :
        \A j \in 1..Len(s.timers) :
            \/ s.timers[i].due < s.timers[j].due
            \/ (s.timers[i].due = s.timers[j].due /\ i <= j)

\* ---- the mutations, lines 340-426 ----
Patch(list, op, task) ==
    CASE op = "create" -> Append(list, task)
      [] op = "update" -> [i \in 1..Len(list) |->
                              IF list[i].id = task.id THEN task ELSE list[i]]
      [] op = "delete" -> SelectSeq(list, LAMBDA x : x.id # task.id)

\* the message of the error the mutations throw while offline
OfflineMessage(op) ==
    CASE op = "create" -> "Cannot create tasks while offline"
      [] op = "update" -> "Cannot update tasks while offline"
      [] op = "delete" -> "Cannot delete tasks while offline"

\* the mutations without their isOffline test
MutationStartUnchecked(s, op, task) ==
    IF op = "create" /\ s.userId = NoUser
    THEN [s EXCEPT !.ev.kind = "mutation",
                   !.ev.outcome = "User ID is required"]
    ELSE [s EXCEPT !.mutation = [op |-> op, user |-> s.userId, task |-> task],
                   !.count.remoteMutations = @ + 1,
                   !.ev.kind = "mutation",
                   !.ev.outcome = "sent"]

\* the synchronous start of handleCreateTask / Update / Delete
MutationStart(s, op, task) ==
    IF s.isOffline
    THEN [s EXCEPT !.ev.kind = "mutation", !.ev.outcome = OfflineMessage(op)]
    ELSE IF op = "create" /\ s.userId = NoUser
    THEN [s EXCEPT !.ev.kind = "mutation",
                   !.ev.outcome = "User ID is required"]
    ELSE [s EXCEPT !.mutation = [op |-> op, user |-> s.userId, task |-> task],
                   !.count.remoteMutations = @ + 1,
                   !.ev.kind = "mutation",
                   !.ev.outcome = "sent"]

\* the patch applied whether the remote call resolved or rejected
MutationSettleAlways(s, ok) ==
    LET m == s.mutation
        s0 == [s EXCEPT !.mutation = NoMutation, !.ev.kind = "mutationSettle",
                        !.ev.outcome = IF ok THEN "resolved" ELSE "rejected"]
    IN  IF s.isMountedRef
        THEN LET s1 == SetState(s0, "tasks", Patch(s0.tasks, m.op, m.task))
             IN  IF m.user # NoUser /\ HasCache(s1, m.user)
                 THEN [s1 EXCEPT !.tasksCache[m.user] =
                          [tasks |-> Patch(s1.tasksCache[m.user].tasks, m.op, m.task),
                           timestamp |-> s.now]]
                 ELSE s1
        ELSE s0

\* the remote call of the pending mutation resolves or rejects
MutationSettle(s, ok) ==
    LET m == s.mutation
        s0 == [s EXCEPT !.mutation = NoMutation, !.ev.kind = "mutationSettle",
                        !.ev.outcome = IF ok THEN "resolved" ELSE "rejected"]
    IN  IF ok /\ s.isMountedRef
        THEN LET s1 == SetState(s0, "tasks", Patch(s0.tasks, m.op, m.task))
             IN  IF m.user # NoUser /\ HasCache(s1, m.user)
                 THEN [s1 EXCEPT !.tasksCache[m.user] =
                          [tasks |-> Patch(s1.tasksCache[m.user].tasks, m.op, m.task),
                           timestamp |-> s.now]]
                 ELSE s1
        ELSE s0

(***************************************************************************)
(* Actions                                                                 *)
(***************************************************************************)
Step(s) == Install(Rerender(s))

\* ---- a second component calling useTasks(user?.id) ----
\* what each call of useTasks owns: its state, its refs, its suspended
\* invocations, timers and listeners
InstanceFields ==
    {"userId", "isOffline", "mounted", "tasks", "loading", "error",
     "retryCount", "loadingRef", "lastLoadTimeRef", "isMountedRef",
     "abortControllerRef", "tabSwitchRecoveryRef", "calls", "nCalls",
     "timers", "effect", "mutation"}

\* the hook's first render for user u
Rendered(u) ==
    [userId |-> u, isOffline |-> FALSE, mounted |-> TRUE, tasks |-> <<>>,
     loading |-> TRUE, error |-> NoError, retryCount |-> 0,
     loadingRef |-> FALSE, lastLoadTimeRef |-> 0, isMountedRef |-> TRUE,
     abortControllerRef |-> NoController, tabSwitchRecoveryRef |-> FALSE,
     calls |-> [c \in CallIds |-> NoCall], nCalls |-> 0, timers |-> <<>>,
     effect |-> [cl |-> NoClosure, subscribed |-> FALSE, pollDue |-> 0],
     mutation |-> NoMutation]

NotRendered == [Rendered(NoUser) EXCEPT !.mounted = FALSE]

\* the second instance's view: its own fields, the module's tasksCache
PeerCur ==
    [f \in DOMAIN Cur |-> IF f \in InstanceFields THEN peer[f] ELSE Cur[f]]

PeerInstall(s) ==
    /\ s.nCalls <= s.bound.calls
    /\ peer' = [f \in InstanceFields |-> s[f]]
    /\ tasksCache' = s.tasksCache /\ ev' = s.ev /\ count' = s.count
    /\ UNCHANGED <<now, cacheVars, userId, isOffline, mounted, devMode, tasks,
                   loading, error, retryCount, loadingRef, lastLoadTimeRef,
                   isMountedRef, abortControllerRef, tabSwitchRecoveryRef,
                   calls, nCalls, timers, effect, mutation, bound, auth,
                   admin>>

PeerStep(s) == PeerInstall(Rerender(s))

\* the component mounts: the first run of the effect
Mount ==
    /\ mounted /\ effect.cl = NoClosure
    /\ Step(Cur)

RealtimeEvent ==
    /\ effect.subscribed /\ count.events < bound.events
    /\ Step(OnRealtime([Cur EXCEPT !.count.events = @ + 1]))

VisibilityChange ==
    /\ effect.subscribed /\ count.events < bound.events
    /\ Step(HandleVisibilityChange([Cur EXCEPT !.count.events = @ + 1]))

PollTick ==
    /\ effect.subscribed /\ now >= effect.pollDue /\ count.events < bound.events
    /\ Step(PollCheck([Cur EXCEPT !.count.events = @ + 1]))

\* refreshTasks(force), lines 428-430
RefreshTasks(force) ==
    /\ mounted /\ effect.cl # NoClosure /\ count.events < bound.events
    /\ Step(LoadTasks([Cur EXCEPT !.count.events = @ + 1], effect.cl, force, "call"))

ChangeUser(u) ==
    /\ mounted /\ effect.cl # NoClosure /\ u # userId
    /\ count.events < bound.events
    /\ Step([Cur EXCEPT !.userId = u, !.count.events = @ + 1])

ToggleOffline ==
    /\ mounted /\ effect.cl # NoClosure
    /\ count.events < bound.events
    /\ Step([Cur EXCEPT !.isOffline = ~@, !.count.events = @ + 1])

Unmount ==
    /\ mounted /\ effect.cl # NoClosure
    /\ Install(Cleanup([Cur EXCEPT !.mounted = FALSE]))

PreflightDone(c, outcome, randomOffset) ==
    /\ calls[c].pc = "pre"
    /\ Step(Preflight(Cur, c, outcome, randomOffset))

FetchResolves(c, data) ==
    /\ calls[c].pc = "fetch"
    /\ Step(Finally(Success(Cur, c, data), c, "success"))

FetchRejects(c, randomOffset) ==
    /\ calls[c].pc = "fetch"
    /\ Step(Finally(Catch(Cur, c, "other", randomOffset), c, "failed"))

TimerFires(randomOffset) ==
    /\ timers # <<>>
    /\ LET i == NextTimer(Cur)
       IN  /\ timers[i].due <= now
           /\ Step(RunTimer([Cur EXCEPT !.timers = RemoveAt(@, i)],
                            timers[i], randomOffset))

MutationCall(op, task) ==
    /\ mounted /\ effect.cl # NoClosure /\ mutation = NoMutation
    /\ count.events < bound.events
    /\ Step(MutationStart([Cur EXCEPT !.count.events = @ + 1], op, task))

MutationDone(ok) ==
    /\ mutation # NoMutation
    /\ Step(MutationSettle(Cur, ok))

PeerMount ==
    /\ peer.mounted /\ peer.effect.cl = NoClosure
    /\ PeerStep(PeerCur)

PeerRealtimeEvent ==
    /\ peer.effect.subscribed /\ count.events < bound.events
    /\ PeerStep(OnRealtime([PeerCur EXCEPT !.count.events = @ + 1]))

PeerPreflightDone(c, outcome, randomOffset) ==
    /\ peer.calls[c].pc = "pre"
    /\ PeerStep(Preflight(PeerCur, c, outcome, randomOffset))

PeerFetchResolves(c, data) ==
    /\ peer.calls[c].pc = "fetch"
    /\ PeerStep(Finally(Success(PeerCur, c, data), c, "success"))

\* time passes, but not beyond the time a pending timer is due at
Tick(d) ==
    /\ count.ticks < bound.ticks
    /\ \A i \in 1..Len(timers) : now + d <= timers[i].due
    /\ Install([Cur EXCEPT !.now = @ + d, !.count.ticks = @ + 1, !.ev.kind = "tick"])

\* time passes until the earliest pending timer is due
TickToTimer ==
    /\ count.ticks < bound.ticks
    /\ timers # <<>>
    /\ timers[NextTimer(Cur)].due > now
    /\ Install([Cur EXCEPT !.now = timers[NextTimer(Cur)].due,
                           !.count.ticks = @ + 1, !.ev.kind = "tick"])

\* time passes until the interval's next callback is due
TickToPoll ==
    /\ count.ticks < bound.ticks
    /\ effect.subscribed /\ effect.pollDue > now
    /\ \A i \in 1..Len(timers) : effect.pollDue <= timers[i].due
    /\ Install([Cur EXCEPT !.now = effect.pollDue,
                           !.count.ticks = @ + 1, !.ev.kind = "tick"])

\* the calls of createTask, updateTask and deleteTask the UI makes
MutationCalls ==
    { [op |-> "create", task |-> Task(MaxTaskId, 0)],
      [op |-> "update", task |-> Task(1, 1)],
      [op |-> "delete", task |-> Task(1, 0)] }

\* tasksCache is a module-level Map: it is empty after a page load, or holds
\* what an earlier instance of the hook stored, older or younger than
\* CACHE_TTL
InitialCaches ==
    { [u \in Users |-> NoEntry] } \cup
    { [u \in Users |-> IF u = "u1"
                       THEN [tasks |-> <<Task(1, 0)>>, timestamp |-> T0 - age]
                       ELSE NoEntry] :
      age \in {CACHE_TTL + THROTTLE_NORMAL, THROTTLE_NORMAL} }

\* the hook after its first render: useState and useRef initial values
InstanceConstructed ==
    /\ userId = "u1" /\ isOffline = FALSE /\ mounted = TRUE
    /\ tasks = <<>> /\ loading = TRUE /\ error = NoError /\ retryCount = 0
    /\ loadingRef = FALSE /\ lastLoadTimeRef = 0 /\ isMountedRef = TRUE
    /\ abortControllerRef = NoController /\ tabSwitchRecoveryRef = FALSE
    /\ calls = [c \in CallIds |-> NoCall] /\ nCalls = 0
    /\ timers = <<>>
    /\ effect = [cl |-> NoClosure, subscribed |-> FALSE, pollDue |-> 0]
    /\ mutation = NoMutation
    /\ ev = QuietEv
    /\ count = [events |-> 0, ticks |-> 0, queries |-> 0,
                remoteMutations |-> 0, retries |-> 0,
                timeoutRetries |-> 0]

\* ---- useAuth (hooks/useAuth.ts) ----

NoTimer == -1
NoSession == "null"

\* useAuth before its mount effect: pc is the await checkSession is
\* suspended at, seen the retryCount of the closure of that checkSession,
\* timer the time its retry is due at, delay the timeout of that retry,
\* checks and retries the invocations of checkSession and those made by
\* the retry callback
AuthConstructed ==
    [pc |-> "unmounted", seen |-> 0, retryCount |-> 0, loading |-> TRUE,
     error |-> NoError, user |-> NoSession, timer |-> NoTimer, delay |-> 0,
     checks |-> 0, retries |-> 0]

\* checkSession of the render whose retryCount is rc, up to its first await
checkSession(a, rc) ==
    [a EXCEPT !.pc = "testConnection", !.seen = rc, !.checks = @ + 1]

\* the catch block and the finally block of checkSession, lines 59-78
CheckSessionCatch(a, t) ==
    LET a1 == [a EXCEPT !.error = "Failed to check authentication status"]
        a2 == IF a.seen < 3
              THEN [a1 EXCEPT
                      !.delay = Min(1000 * Pow2(a.seen), 10000),
                      !.timer = t + Min(1000 * Pow2(a.seen), 10000)]
              ELSE [a1 EXCEPT !.loading = FALSE]
    IN  [a2 EXCEPT !.loading = FALSE, !.pc = "idle"]

\* a return from the try block, and the finally block
CheckSessionReturn(a) == [a EXCEPT !.loading = FALSE, !.pc = "idle"]

\* the mount effect, lines 21-32: checkSession of the first render
AuthMount ==
    /\ auth.pc = "unmounted"
    /\ auth' = checkSession(auth, auth.retryCount)
    /\ UNCHANGED <<now, cacheVars, useTasksVars, admin>>

\* testConnection() resolves, with either result (lines 37-44)
TestConnectionResolves ==
    /\ auth.pc = "testConnection"
    /\ auth' = [auth EXCEPT !.pc = "getSession"]
    /\ UNCHANGED <<now, cacheVars, useTasksVars, admin>>

\* getSession() resolves: with an error, without a session, or with the
\* session of user u (lines 47-58)
GetSessionResolves(result) ==
    /\ auth.pc = "getSession"
    /\ auth' = IF result \in Users
               THEN [auth EXCEPT !.pc = "updateUserState"]
               ELSE CheckSessionReturn(auth)
    /\ UNCHANGED <<now, cacheVars, useTasksVars, admin>>

\* updateUserState(session.user) resolves
UpdateUserStateResolves ==
    /\ auth.pc = "updateUserState"
    /\ auth' = CheckSessionReturn([auth EXCEPT !.user = "u1"])
    /\ UNCHANGED <<now, cacheVars, useTasksVars, admin>>

\* the await checkSession is suspended at throws
CheckSessionThrows ==
    /\ auth.pc \in {"testConnection", "getSession", "updateUserState"}
    /\ auth' = CheckSessionCatch(auth, now)
    /\ UNCHANGED <<now, cacheVars, useTasksVars, admin>>

\* time passes until the retry is due
AuthTick ==
    /\ auth.timer # NoTimer /\ now < auth.timer
    /\ now' = auth.timer
    /\ UNCHANGED <<cacheVars, useTasksVars, auth, admin>>

\* the retry callback, lines 66-69: setRetryCount(prev => prev + 1) and
\* the checkSession of the scope the callback was created in
RetryCallback ==
    /\ auth.timer # NoTimer /\ now >= auth.timer
    /\ auth.checks < AuthMaxChecks
    /\ auth' = checkSession([auth EXCEPT !.timer = NoTimer,
                                         !.retryCount = @ + 1,
                                         !.retries = @ + 1], auth.seen)
    /\ UNCHANGED <<now, cacheVars, useTasksVars, admin>>

\* handleAuthChange, lines 81-93, for a sign-out and for a sign-in whose
\* updateUserState succeeds
AuthStateChange(u) ==
    /\ auth.pc # "unmounted"
    /\ auth.user # u
    /\ auth' = [auth EXCEPT !.user = u, !.loading = FALSE]
    /\ UNCHANGED <<now, cacheVars, useTasksVars, admin>>

\* ---- TaskManager (components/admin/TaskManager.tsx) ----

AdminTaskIds == 1..AdminMaxTasks
NotListed == "absent"
NoBulk == [kind |-> "none", status |-> "", ids |-> <<>>, next |-> 0,
           wait |-> {}, n |-> 0, snapshot |-> <<>>]

\* TaskManager before it is rendered: tasks is the prop, remote the rows
\* of the tasks table (a list is a function from task id to status, NotListed
\* for a task that is not in it), op the bulk handler that is suspended at
\* an await, inflight the calls of onUpdateTask and onDeleteTask that have
\* not settled, narrow is window.innerWidth < 768
AdminConstructed ==
    [mounted |-> FALSE, narrow |-> FALSE,
     tasks |-> [id \in AdminTaskIds |-> "in-progress"],
     remote |-> [id \in AdminTaskIds |-> "in-progress"],
     localTasks |-> [id \in AdminTaskIds |-> "in-progress"],
     selectedTaskIds |-> <<>>, isProcessingBulk |-> FALSE,
     op |-> NoBulk, inflight |-> {}, ops |-> 0]

Elems(q) == {q[i] : i \in 1..Len(q)}

\* the for loop over the chunks, lines 354-356 and 395-400: the calls of
\* the next chunk, or the end of the try block
NextChunk(a) ==
    IF a.op.next > Len(a.op.ids)
    THEN [a EXCEPT !.selectedTaskIds = <<>>, !.isProcessingBulk = FALSE,
                   !.op = NoBulk]
    ELSE LET size == IF a.narrow THEN 3 ELSE 5
             chunk == {a.op.ids[i] : i \in
                          a.op.next..Min(a.op.next + size - 1, Len(a.op.ids))}
         IN  [a EXCEPT !.op.wait = chunk, !.op.next = @ + size,
                       !.inflight = @ \cup
                          {[id |-> id, kind |-> a.op.kind,
                            status |-> a.op.status, n |-> a.op.n] :
                              id \in chunk}]

\* lines 370-411, up to the first await
handleBulkStatusUpdate(a, status) ==
    IF Len(a.selectedTaskIds) = 0 THEN a
    ELSE NextChunk([a EXCEPT
            !.isProcessingBulk = TRUE,
            !.localTasks = [id \in AdminTaskIds |->
                IF id \in Elems(a.selectedTaskIds) /\ @[id] # NotListed
                THEN status ELSE @[id]],
            !.ops = @ + 1,
            !.op = [kind |-> "status", status |-> status,
                    ids |-> a.selectedTaskIds, next |-> 1, wait |-> {},
                    n |-> a.ops + 1, snapshot |-> a.tasks]])

\* lines 337-367, up to the first await
handleBulkDelete(a) ==
    IF Len(a.selectedTaskIds) = 0 THEN a
    ELSE NextChunk([a EXCEPT
            !.isProcessingBulk = TRUE,
            !.localTasks = [id \in AdminTaskIds |->
                IF id \in Elems(a.selectedTaskIds) THEN NotListed ELSE @[id]],
            !.ops = @ + 1,
            !.op = [kind |-> "delete", status |-> NotListed,
                    ids |-> a.selectedTaskIds, next |-> 1, wait |-> {},
                    n |-> a.ops + 1, snapshot |-> a.tasks]])

\* the catch and finally blocks of the two bulk handlers, lines 359-366 and
\* 406-410
BulkCatch(a) ==
    LET a1 == IF a.op.kind = "delete"
              THEN [a EXCEPT !.localTasks = a.op.snapshot]
              ELSE a
    IN  [a1 EXCEPT !.isProcessingBulk = FALSE, !.op = NoBulk]

AdminFrame == UNCHANGED <<now, cacheVars, useTasksVars, auth>>

AdminMount(narrow) ==
    /\ ~admin.mounted
    /\ admin' = [admin EXCEPT !.mounted = TRUE, !.narrow = narrow]
    /\ AdminFrame

\* lines 414-420
toggleTaskSelection(id) ==
    /\ admin.mounted
    /\ admin' = [admin EXCEPT !.selectedTaskIds =
                    IF id \in Elems(@)
                    THEN SelectSeq(@, LAMBDA x : x # id)
                    ELSE Append(@, id)]
    /\ AdminFrame

\* the bulk buttons, lines 717-734, disabled while isProcessingBulk
BulkStatusClick(status) ==
    /\ admin.mounted /\ ~admin.isProcessingBulk
    /\ admin.selectedTaskIds # <<>> /\ admin.ops < AdminMaxOps
    /\ admin' = handleBulkStatusUpdate(admin, status)
    /\ AdminFrame

BulkDeleteClick ==
    /\ admin.mounted /\ ~admin.isProcessingBulk
    /\ admin.selectedTaskIds # <<>> /\ admin.ops < AdminMaxOps
    /\ admin' = handleBulkDelete(admin)
    /\ AdminFrame

\* the promise of onUpdateTask or onDeleteTask resolves: the remote holds
\* the change, and a handler that awaits the chunk of this call goes on
\* once the whole chunk has resolved
BulkCallResolves(call) ==
    /\ call \in admin.inflight
    /\ admin.remote[call.id] # NotListed
    /\ LET a1 == [admin EXCEPT !.inflight = @ \ {call},
                               !.remote[call.id] = call.status]
       IN  admin' = IF admin.op.n = call.n
                    THEN IF admin.op.wait = {call.id}
                         THEN NextChunk([a1 EXCEPT !.op.wait = {}])
                         ELSE [a1 EXCEPT !.op.wait = @ \ {call.id}]
                    ELSE a1
    /\ AdminFrame

\* the promise rejects: Promise.all rejects at the first rejection
BulkCallRejects(call) ==
    /\ call \in admin.inflight
    /\ LET a1 == [admin EXCEPT !.inflight = @ \ {call}]
       IN  admin' = IF admin.op.n = call.n THEN BulkCatch(a1) ELSE a1
    /\ AdminFrame

\* AdminDashboard's useTasks reloads: the tasks prop is a new list, and the
\* effect of lines 107-109 copies it to localTasks
TasksPropChanges ==
    /\ admin.mounted /\ admin.tasks # admin.remote
    /\ admin' = [admin EXCEPT !.tasks = admin.remote,
                              !.localTasks = admin.remote]
    /\ AdminFrame

BulkCalls ==
    [id : AdminTaskIds, kind : {"status", "delete"},
     status : {"in-progress", "completed", NotListed}, n : 1..AdminMaxOps]

\* App, whose AdminDashboard is not rendered
HookConstructed ==
    /\ InstanceConstructed
    /\ peer = NotRendered
    /\ auth = AuthConstructed
    /\ admin = AdminConstructed

HookInit ==
    /\ now = T0
    /\ devMode \in BOOLEAN
    /\ tasksCache \in InitialCaches
    /\ HookConstructed
    /\ bound = [calls |-> MaxCalls, events |-> MaxEvents, ticks |-> MaxTicks]

CacheIdle ==
    /\ memoryCache = [k \in Keys |-> Undefined]
    /\ memProto = ObjectPrototype
    /\ mcOp = Record("none", <<>>, 0, Undefined)
    /\ mcOps = 0

Init == HookInit /\ CacheIdle

\* a production build with an empty cache
LoadInit ==
    /\ now = T0
    /\ devMode = FALSE
    /\ tasksCache = [u \in Users |-> NoEntry]
    /\ HookConstructed
    /\ bound = [calls |-> LoadMaxCalls, events |-> LoadMaxEvents,
                ticks |-> LoadMaxTicks]
    /\ CacheIdle

RetryInit ==
    /\ now = T0
    /\ devMode = FALSE
    /\ tasksCache = [u \in Users |-> NoEntry]
    /\ HookConstructed
    /\ bound = [calls |-> RetryMaxCalls, events |-> RetryMaxEvents,
                ticks |-> RetryMaxTicks]
    /\ CacheIdle

CacheInit ==
    /\ now = 1
    /\ memoryCache = [k \in Keys |-> Undefined]
    /\ memProto = ObjectPrototype
    /\ mcOp = Record("none", <<>>, 0, Undefined)
    /\ mcOps = 0
    /\ HookConstructed /\ devMode = FALSE /\ tasksCache = [u \in Users |-> NoEntry]
    /\ bound = [calls |-> 0, events |-> 0, ticks |-> 0]

CacheNext ==
    \/ \E k \in Keys, v \in Values : setCache(k, v)
    \/ \E k \in Keys : GetCacheCall(k)
    \/ \E k \in Keys, a \in MaxAges : IsCacheValidCall(k, a)
    \/ \E k \in Keys : invalidateCache(k)
    \/ \E p \in Prefixes : clearCacheByPrefix(p)
    \/ clearAllCache
    \/ CacheTick

vars == <<now, cacheVars, hookVars>>

Next ==
    \/ Mount
    \/ RealtimeEvent
    \/ VisibilityChange
    \/ PollTick
    \/ \E f \in BOOLEAN : RefreshTasks(f)
    \/ \E u \in Users \cup {NoUser} : ChangeUser(u)
    \/ ToggleOffline
    \/ Unmount
    \/ \E c \in CallIds, o \in {"ok", "noConnection", "noSession"}, j \in Jitters :
          PreflightDone(c, o, j)
    \/ \E c \in CallIds, d \in FetchLists : FetchResolves(c, d)
    \/ \E c \in CallIds, j \in Jitters : FetchRejects(c, j)
    \/ \E j \in Jitters : TimerFires(j)
    \/ \E m \in MutationCalls : MutationCall(m.op, m.task)
    \/ \E ok \in BOOLEAN : MutationDone(ok)
    \/ \E d \in TickSteps : Tick(d)
    \/ TickToTimer
    \/ TickToPoll

\* loads without force only: realtime notifications and the interval; no
\* mutation, no change of userId or connectivity, no unmount; the jitter is
\* always 0
LoadNext ==
    \/ Mount
    \/ RealtimeEvent
    \/ PollTick
    \/ \E c \in CallIds : PreflightDone(c, "ok", 0)
    \/ \E c \in CallIds, d \in FetchLists : FetchResolves(c, d)
    \/ \E c \in CallIds : FetchRejects(c, 0)
    \/ TimerFires(0)
    \/ TickToTimer
    \/ TickToPoll

\* the remote fails every load: realtime notifications, failures, retries
RetryNext ==
    \/ Mount
    \/ RealtimeEvent
    \/ \E c \in CallIds, o \in {"ok", "noConnection"}, j \in Jitters :
          PreflightDone(c, o, j)
    \/ \E c \in CallIds, j \in Jitters : FetchRejects(c, j)
    \/ \E j \in Jitters : TimerFires(j)
    \/ TickToTimer

\* failures, retries up to the budget, successes and the return to the
\* foreground; the jitter is always 0
RecoverInit ==
    /\ now = T0
    /\ devMode = FALSE
    /\ tasksCache = [u \in Users |-> NoEntry]
    /\ HookConstructed
    /\ bound = [calls |-> RecoverMaxCalls, events |-> RecoverMaxEvents,
                ticks |-> RecoverMaxTicks]
    /\ CacheIdle

RecoverNext ==
    \/ Mount
    \/ RealtimeEvent
    \/ VisibilityChange
    \/ \E c \in CallIds, o \in {"ok", "noConnection"} : PreflightDone(c, o, 0)
    \/ \E c \in CallIds, d \in FetchLists : FetchResolves(c, d)
    \/ \E c \in CallIds : FetchRejects(c, 0)
    \/ TimerFires(0)
    \/ TickToTimer

\* refreshTasks(true) among loads that fail, retry and succeed
ForceInit ==
    /\ now = T0
    /\ devMode \in BOOLEAN
    /\ tasksCache \in InitialCaches
    /\ HookConstructed
    /\ bound = [calls |-> ForceMaxCalls, events |-> ForceMaxEvents,
                ticks |-> ForceMaxTicks]
    /\ CacheIdle

ForceNext ==
    \/ Mount
    \/ RealtimeEvent
    \/ RefreshTasks(TRUE)
    \/ \E c \in CallIds : PreflightDone(c, "ok", 0)
    \/ \E c \in CallIds, d \in FetchLists : FetchResolves(c, d)
    \/ \E c \in CallIds : FetchRejects(c, 0)
    \/ TimerFires(0)
    \/ TickToTimer

\* every outcome of a load: success, failure, timeout, cancellation, the
\* offline return and the missing session; timers fire when they are due
\* and the awaits before the fetch settle
ReleaseInit ==
    /\ now = T0
    /\ devMode \in BOOLEAN
    /\ tasksCache \in InitialCaches
    /\ HookConstructed
    /\ bound = [calls |-> CallSlots,
                events |-> IF tasksCache["u1"] = NoEntry
                           THEN 0 ELSE ReleaseMaxEvents,
                ticks |-> ReleaseMaxTicks]
    /\ CacheIdle

PreflightSettles(c) ==
    \E o \in {"ok", "noConnection", "noSession"} : PreflightDone(c, o, 0)

ReleaseNext ==
    \/ Mount
    \/ RealtimeEvent
    \/ ToggleOffline
    \/ \E c \in CallIds : PreflightSettles(c)
    \/ \E c \in CallIds, d \in FetchLists : FetchResolves(c, d)
    \/ \E c \in CallIds : FetchRejects(c, 0)
    \/ TimerFires(0)
    \/ TickToTimer

\* an online hook whose data source answers every query with a list, before
\* the timeout of the query: load triggers are the first effect run,
\* realtime notifications and refreshTasks()
AnswerInit ==
    /\ now = T0
    /\ devMode \in BOOLEAN
    /\ tasksCache = [u \in Users |-> NoEntry]
    /\ HookConstructed
    /\ bound = [calls |-> AnswerMaxCalls, events |-> AnswerMaxEvents,
                ticks |-> AnswerMaxTicks]
    /\ CacheIdle

\* time passes to the next timeout, which is not the timeout of a query
\* that is still outstanding
TickAnswered ==
    /\ TickToTimer
    /\ LET t == timers[NextTimer(Cur)]
       IN  t.kind = "fetchTimeout" => calls[t.call].pc # "fetch"

FetchAnswers(c) == \E d \in FetchLists : FetchResolves(c, d)

AnswerNext ==
    \/ Mount
    \/ RealtimeEvent
    \/ RefreshTasks(FALSE)
    \/ \E c \in CallIds : PreflightDone(c, "ok", 0)
    \/ \E c \in CallIds : FetchAnswers(c)
    \/ TimerFires(0)
    \/ TickAnswered

\* loads, mutations and changes of userId, with cache entries that earlier
\* instances of the hook left for both users
MutateInit ==
    /\ now = T0
    /\ devMode \in BOOLEAN
    /\ tasksCache \in
          { [u \in Users |-> NoEntry],
            [u \in Users |-> [tasks |-> IF u = "u1" THEN <<Task(1, 0)>>
                                        ELSE <<Task(2, 0)>>,
                              timestamp |-> T0 - THROTTLE_NORMAL]] }
    /\ HookConstructed
    /\ bound = [calls |-> MutateMaxCalls, events |-> MutateMaxEvents,
                ticks |-> MutateMaxTicks]
    /\ CacheIdle

MutateNext ==
    \/ Mount
    \/ RealtimeEvent
    \/ \E u \in Users : ChangeUser(u)
    \/ \E c \in CallIds : PreflightDone(c, "ok", 0)
    \/ \E c \in CallIds, d \in FetchLists : FetchResolves(c, d)
    \/ \E c \in CallIds : FetchRejects(c, 0)
    \/ TimerFires(0)
    \/ \E m \in MutationCalls : MutationCall(m.op, m.task)
    \/ \E ok \in BOOLEAN : MutationDone(ok)
    \/ TickToTimer

\* fetchTasks(userId) answers with the tasks of that user
RemoteTasks(u) == IF u = "u1" THEN <<Task(1, 0)>> ELSE <<Task(2, 0)>>

\* loads and changes of userId, to another user and to undefined
SubjectNext ==
    \/ Mount
    \/ RealtimeEvent
    \/ \E u \in Users \cup {NoUser} : ChangeUser(u)
    \/ \E c \in CallIds : PreflightDone(c, "ok", 0)
    \/ \E c \in CallIds : FetchResolves(c, RemoteTasks(calls[c].user))
    \/ \E c \in CallIds : FetchRejects(c, 0)
    \/ TimerFires(0)
    \/ TickToTimer

\* useAuth alone: the session check, its retries and auth state changes
AuthNext ==
    \/ AuthMount
    \/ TestConnectionResolves
    \/ \E r \in {"error", NoSession, "u1"} : GetSessionResolves(r)
    \/ UpdateUserStateResolves
    \/ CheckSessionThrows
    \/ AuthTick
    \/ RetryCallback
    \/ \E u \in {NoSession, "u1"} : AuthStateChange(u)

\* TaskManager alone: selection, the two bulk operations and new props
AdminNext ==
    \/ \E narrow \in BOOLEAN : AdminMount(narrow)
    \/ \E id \in AdminTaskIds : toggleTaskSelection(id)
    \/ \E st \in {"in-progress", "completed"} : BulkStatusClick(st)
    \/ BulkDeleteClick
    \/ \E call \in BulkCalls : BulkCallResolves(call)
    \/ \E call \in BulkCalls : BulkCallRejects(call)
    \/ TasksPropChanges

\* App and AdminDashboard both call useTasks(user?.id) for the same user
TwoInit ==
    /\ now = T0
    /\ devMode \in BOOLEAN
    /\ tasksCache \in InitialCaches
    /\ InstanceConstructed
    /\ peer = Rendered("u1")
    /\ auth = AuthConstructed
    /\ admin = AdminConstructed
    /\ bound = [calls |-> TwoMaxCalls, events |-> TwoMaxEvents, ticks |-> 0]
    /\ CacheIdle

TwoNext ==
    \/ Mount
    \/ RealtimeEvent
    \/ \E c \in CallIds : PreflightDone(c, "ok", 0)
    \/ \E c \in CallIds, d \in FetchLists : FetchResolves(c, d)
    \/ PeerMount
    \/ PeerRealtimeEvent
    \/ \E c \in CallIds : PeerPreflightDone(c, "ok", 0)
    \/ \E c \in CallIds, d \in FetchLists : PeerFetchResolves(c, d)

\* the retry delays alone: lines 209-217 applied at every value retryCount
\* takes below the larger of the two retry limits
BackoffJitters == {0, 1, JITTER_RANGE \div 2, JITTER_RANGE - 2, JITTER_RANGE - 1}

BackoffInit ==
    /\ now = T0
    /\ devMode = FALSE
    /\ tasksCache = [u \in Users |-> NoEntry]
    /\ HookConstructed
    /\ bound = [calls |-> 0, events |-> 0, ticks |-> 0]
    /\ CacheIdle

\* setTimeout(() => setRetryCount(prev => prev + 1), retryDelay), with the
\* timer's callback applied at once
ScheduleRetry(randomOffset) ==
    /\ retryCount < MAX_RETRIES_TIMEOUT
    /\ Install([SetTimeout(Cur, "retry", RetryDelay(retryCount, randomOffset),
                           0, NoClosure)
                   EXCEPT !.retryCount = @ + 1])

BackoffNext == \E j \in BackoffJitters : ScheduleRetry(j)

Spec == Init /\ [][Next]_vars

SpecBackoff == BackoffInit /\ [][BackoffNext]_vars

SpecRecover == RecoverInit /\ [][RecoverNext]_vars

SpecMutate == MutateInit /\ [][MutateNext]_vars

SpecTwo == TwoInit /\ [][TwoNext]_vars

SpecForce == ForceInit /\ [][ForceNext]_vars

\* a timeout whose time has come is pending
TimerDue == timers # <<>> /\ timers[NextTimer(Cur)].due <= now

\* the event loop runs the callback of a timeout that is due: weak fairness
\* of TimerFires(0), written with its enabling condition
TimersRun == []<>(~TimerDue) \/ []<><<TimerFires(0)>>_vars

\* React runs the effect after the first render, time passes, due timeouts
\* run, and the awaits before the fetch settle
SpecRelease ==
    /\ ReleaseInit /\ [][ReleaseNext]_vars
    /\ WF_vars(Mount)
    /\ WF_vars(TickToTimer)
    /\ TimersRun
    /\ \A c \in CallIds : WF_vars(PreflightSettles(c))

\* the remote answers: weak fairness of FetchAnswers(c) and of
\* PreflightDone(c, "ok", 0), written with their enabling conditions
RemoteAnswers ==
    \A c \in CallIds :
        /\ []<>(calls[c].pc # "fetch") \/ []<><<FetchAnswers(c)>>_vars
        /\ []<>(calls[c].pc # "pre") \/ []<><<PreflightDone(c, "ok", 0)>>_vars

SpecAnswer ==
    /\ AnswerInit /\ [][AnswerNext]_vars
    /\ WF_vars(Mount)
    /\ WF_vars(TickAnswered)
    /\ TimersRun
    /\ RemoteAnswers

SpecSubject == MutateInit /\ [][SubjectNext]_vars

SpecAuth == LoadInit /\ [][AuthNext]_vars

SpecAdmin == LoadInit /\ [][AdminNext]_vars

SpecLoad == LoadInit /\ [][LoadNext]_vars

SpecRetry == RetryInit /\ [][RetryNext]_vars

SpecCache == CacheInit /\ [][CacheNext]_vars

\* the memory cache read without a max age, over long times
ExpiryNext ==
    \/ \E k \in Keys, v \in Values : setCache(k, v)
    \/ \E k \in Keys : GetCacheCall(k)
    \/ \E k \in Keys : IsCacheValidCall(k, Omitted)
    \/ \E k \in Keys : invalidateCache(k)
    \/ CacheWait

SpecExpiry == CacheInit /\ [][ExpiryNext]_vars

\* ---------------------------------------------------------------------------
\* Properties

Absent(x) == x \in {Null, Undefined}
HasEntry(key) == IF key = KeyProto THEN memProto.t = "entry"
                 ELSE memoryCache[key] # Undefined
EntryAt(key) == IF key = KeyProto THEN memProto ELSE memoryCache[key]
Settles(c) == calls[c].pc \in {"pre", "fetch"} /\ calls'[c].pc = "done"

\* C1: of the loads called without force inside one throttle window, with
\* no forced load since the first of them, at most one has a task query
\* outstanding at the remote
C1_AtMostOneInFlight ==
    \A c1, c2 \in CallIds :
        ~ /\ c1 < c2
          /\ calls[c1].pc = "fetch" /\ calls[c2].pc = "fetch"
          /\ calls[c1].user = calls[c2].user
          /\ ~calls[c1].force /\ ~calls[c2].force /\ ~calls[c1].sawForce
          /\ calls[c2].callTime - calls[c1].callTime < THROTTLE_NORMAL

\* C2: when a load whose token was cancelled, or whose hook was unmounted,
\* comes to its end, neither its result nor its error nor its completion
\* handling changes tasks, error, loading, the cache or the retry counter,
\* and no retry is scheduled
C2_CancelledNeverMutates ==
    [][\A c \in CallIds :
          (Settles(c) /\ (calls[c].aborted \/ ~mounted \/ ~isMountedRef))
          => /\ UNCHANGED <<tasks, error, loading, retryCount, tasksCache>>
             /\ count'.retries = count.retries]_vars

\* C3: a call of loadTasks without force that the in-flight marker or the
\* throttle skips has no effect: the requests in flight keep their tokens
\* and the state is as before
C3_SkippedLoadHasNoEffect ==
    [][(ev'.kind = "call" /\ ~ev'.force /\ ev'.load \in {"dedup", "throttled"})
       => UNCHANGED <<calls, tasks, error, loading, retryCount, tasksCache>>]_vars

\* C4: when a load that is neither cancelled nor unmounted fails, by a
\* rejection or by the 45 s timeout, and the cache holds an entry for its
\* subject, tasks become the cached list and error is set
C4_StaleServesOnFailure ==
    [][\A c \in CallIds :
          (/\ Settles(c)
           /\ ev'.outcome \in {"failed", "timeout"}
           /\ ~calls[c].aborted /\ mounted /\ isMountedRef
           /\ HasCache(Cur, calls[c].user))
          => /\ tasks' = tasksCache[calls[c].user].tasks
             /\ error' # NoError]_vars

C4_Witness ==
    /\ ev.kind = "settle" /\ ev.outcome \in {"failed", "timeout"}
    /\ mounted /\ isMountedRef /\ userId \in Users
    /\ tasksCache[userId] # NoEntry
    /\ tasks = tasksCache[userId].tasks
    /\ error \in {"Using cached data. Failed to refresh",
                  "Using cached data. Failed to refresh: Task fetch timeout after 45s"}

\* C5: a create, update or delete called while isOffline is true throws the
\* offline error, sends nothing to the remote and leaves tasks and the
\* cache as they were
C5_OfflineBlocksMutation ==
    [][(ev'.kind = "mutation" /\ isOffline)
       => /\ ev'.outcome \in {OfflineMessage(m.op) : m \in MutationCalls}
          /\ UNCHANGED <<tasks, tasksCache, mutation>>
          /\ count'.remoteMutations = count.remoteMutations
          /\ count'.queries = count.queries]_vars

C5_Witness ==
    /\ ev.kind = "mutation" /\ isOffline /\ mounted
    /\ ev.outcome = "Cannot update tasks while offline"
    /\ tasks # <<>>
    /\ mutation = NoMutation

C7_RetryBudget ==
    /\ count.timeoutRetries = 0 => count.retries <= MAX_RETRIES_OTHER
    /\ count.retries <= MAX_RETRIES_TIMEOUT

\* C8: isCacheValid(k, maxAge) is true exactly when k has an entry stored
\* at T and now < T + maxAge, and false for a key with no entry, for every
\* maxAge >= 0 (over the keys that name no property of Object.prototype)
C8_CacheFreshness ==
    \A k \in Keys \ {KeyProto}, a \in MaxAges :
        isCacheValid(k, a) = (HasEntry(k) /\ now - EntryAt(k).timestamp < a)

\* C9: for every key, getCache after setCache(k, v) returns v, getCache
\* after invalidateCache(k) returns absent, and invalidateCache of a key
\* with no entry changes nothing
C9_RoundTrip ==
    /\ [](/\ mcOp.op = "set" => getCache(mcOp.key) = Num(mcOp.arg)
          /\ mcOp.op = "invalidate" => Absent(getCache(mcOp.key)))
    /\ [][(mcOp'.op = "invalidate" /\ mcOps' # mcOps
           /\ \E k \in Keys : k = mcOp'.key /\ Absent(getCache(k)))
          => UNCHANGED <<memoryCache, memProto>>]_vars

\* C10: a call of loadTasks without force that passes the in-flight marker
\* and the throttle and finds a cache entry younger than CACHE_TTL sets
\* tasks to the cached list, loading to false and error to null, issues no
\* query and leaves the in-flight marker unset
C10_FreshCacheSuppressesNetwork ==
    [][(ev'.load = "cached" /\ mounted')
       => /\ ~ev'.force
          /\ tasks' = tasksCache[ev'.user].tasks
          /\ loading' = FALSE /\ error' = NoError
          /\ count'.queries = count.queries
          /\ loadingRef' = FALSE
          /\ UNCHANGED <<nCalls, tasksCache>>]_vars

C10_Witness ==
    /\ ev.load = "cached" /\ ~ev.force /\ mounted
    /\ ev.user \in Users /\ tasksCache[ev.user] # NoEntry
    /\ now - tasksCache[ev.user].timestamp < CACHE_TTL
    /\ tasks = tasksCache[ev.user].tasks
    /\ ~loading /\ ~loadingRef

InProgress(c) == calls[c].pc \in {"pre", "fetch"}
OnlyLoad(c) == \A c2 \in CallIds \ {c} : ~InProgress(c2)

\* C11: when the cache has no entry for u and the only load in progress,
\* not cancelled and with the hook mounted, fetches the list L, then tasks
\* = L, loading = false, error = null, retryCount = 0, the last-success time
\* is the time of the write and the cache holds L for u with that timestamp
C11_SuccessfulLoad ==
    [][\A c \in CallIds, L \in FetchLists :
          (/\ FetchResolves(c, L)
           /\ OnlyLoad(c) /\ ~calls[c].aborted /\ mounted /\ isMountedRef
           /\ ~HasCache(Cur, calls[c].user))
          => /\ tasks' = L /\ loading' = FALSE /\ error' = NoError
             /\ retryCount' = 0
             /\ lastLoadTimeRef' = now
             /\ tasksCache'[calls[c].user] = [tasks |-> L, timestamp |-> now]]_vars

C11_Witness ==
    /\ ev.kind = "settle" /\ ev.outcome = "success" /\ mounted
    /\ userId = "u1" /\ tasksCache["u2"] = NoEntry
    /\ tasks = <<Task(1, 0), Task(2, 0)>>
    /\ tasksCache["u1"] = [tasks |-> tasks, timestamp |-> now]
    /\ lastLoadTimeRef = now /\ ~loading /\ error = NoError /\ retryCount = 0
    /\ now >= T0 + BACKOFF_BASE

StaleLoad(c) ==
    /\ InProgress(c) /\ ~calls[c].force /\ ~calls[c].aborted
    /\ HasCache(Cur, calls[c].user)

C13_RealtimeRefetch ==
    [][(RealtimeEvent /\ mounted /\ isMountedRef /\ ~isOffline)
       => \/ count'.queries > count.queries
          \/ \E c \in CallIds : InProgress(c)' /\ ~calls'[c].aborted
          \/ \E i \in 1..Len(timers') :
                timers'[i].kind \in {"retry", "initialRefresh"}]_vars

\* the in-flight marker is set and a load has been in progress for longer
\* than the fetch timeout plus the grace period
Stuck ==
    /\ loadingRef
    /\ \E c \in CallIds :
          InProgress(c) /\ now - calls[c].callTime > TASK_FETCH_TIMEOUT + POLL_GRACE

\* C14: a change of visibility to the foreground clears the in-flight
\* marker and issues a forced load only when the marker is stuck; otherwise
\* it issues no forced load, leaves a set marker set and starts no load
\* beside the one in flight, and cancels no load in progress
C14_VisibilityRecovery ==
    [][(VisibilityChange /\ ~Stuck)
       => /\ ~ev'.force
          /\ loadingRef => (loadingRef' /\ nCalls' = nCalls)
          /\ \A c \in CallIds :
                (InProgress(c) /\ ~calls[c].aborted) => ~calls'[c].aborted]_vars

\* C15: the 5 s interval clears the in-flight marker only when the marker
\* is stuck; the marker of a load that started less than the fetch timeout
\* plus the grace period ago stays set, and loading stays as it is
C15_PeriodicStuckCheck ==
    [][(PollTick /\ loadingRef /\ ~Stuck)
       => (loadingRef' /\ loading' = loading)]_vars

Budget(outcome) ==
    IF outcome = "timeout" THEN MAX_RETRIES_TIMEOUT ELSE MAX_RETRIES_OTHER
RetryPending(ts) == \E i \in 1..Len(ts) : ts[i].kind = "retry"

\* C16: when a load that is current and mounted fails with no cache entry
\* and its retry counter has reached the budget of the failure's class, no
\* retry is scheduled, none is left pending and the recovery flag is set;
\* the next change of visibility to the foreground then issues a forced
\* load, which is in progress with its token not cancelled, and the retry
\* counter is 0
C16_ExhaustedRetriesStop ==
    /\ [][\A c \in CallIds :
             (/\ Settles(c) /\ ev'.outcome \in {"failed", "timeout"}
              /\ ~calls[c].aborted /\ mounted /\ isMountedRef
              /\ ~HasCache(Cur, calls[c].user)
              /\ calls[c].rc >= Budget(ev'.outcome))
             => /\ count'.retries = count.retries
                /\ ~RetryPending(timers')
                /\ tabSwitchRecoveryRef']_vars
    /\ [][(/\ VisibilityChange /\ mounted /\ isMountedRef
           /\ tabSwitchRecoveryRef /\ retryCount >= MAX_RETRIES_OTHER)
          => /\ ev'.force /\ retryCount' = 0
             /\ \E c \in CallIds :
                   InProgress(c)' /\ calls'[c].force /\ ~calls'[c].aborted]_vars

\* C17: when the remote call of a create, update or delete rejects, the
\* error goes to the caller and tasks, error, loading and the cache (lists
\* and timestamps) are as before
C17_MutationFailureSideEffectFree ==
    [][MutationDone(FALSE)
       => /\ ev'.outcome = "rejected"
          /\ UNCHANGED <<tasks, error, loading, tasksCache>>]_vars

C17_Witness ==
    /\ ev.kind = "mutationSettle" /\ ev.outcome = "rejected"
    /\ mounted /\ isMountedRef /\ mutation = NoMutation
    /\ userId = "u1" /\ tasksCache["u1"] # NoEntry
    /\ tasks = <<Task(1, 0)>> /\ tasksCache["u1"].tasks = tasks

\* C18: for a mounted hook whose effect has run, whenever the cache holds
\* an entry for the current userId and no load is in progress, the entry's
\* list equals tasks
C18_CacheMatchesUI ==
    (/\ mounted /\ isMountedRef /\ effect.cl = Closure(Cur)
     /\ userId \in Users /\ HasCache(Cur, userId)
     /\ \A c \in CallIds : ~InProgress(c))
    => tasksCache[userId].tasks = tasks

\* the loads in progress for user u whose signal is not aborted, of App's
\* instance and of AdminDashboard's
Current(u) ==
    {<<"App", c>> : c \in {c \in CallIds :
        InProgress(c) /\ calls[c].user = u /\ ~calls[c].aborted}}
    \cup
    {<<"AdminDashboard", c>> : c \in {c \in CallIds :
        /\ peer.calls[c].pc \in {"pre", "fetch"}
        /\ peer.calls[c].user = u /\ ~peer.calls[c].aborted}}

\* C19: of the loads in progress for one userId at most one holds a signal
\* that is not aborted: when a load starts, the signal of every load that
\* was in progress for its userId is aborted
C19_AtMostOneCurrentRequest ==
    \A u \in Users : Cardinality(Current(u)) <= 1

\* the step is a cache operation that stores a value under key k
SetsKey(k) == mcOps' # mcOps /\ mcOp'.op = "set" /\ mcOp'.key = k

\* the step is a cache operation that removes key k
RemovesKey(k) ==
    /\ mcOps' # mcOps
    /\ \/ mcOp'.op = "invalidate" /\ mcOp'.key = k
       \/ mcOp'.op = "clearByPrefix" /\ StartsWith(k, mcOp'.key)
       \/ mcOp'.op = "clearAll"

SameResult(x, y) == x = y \/ (Absent(x) /\ Absent(y))

\* C20: getCache(k) is absent before any operation; setCache(k, v) makes
\* it v; invalidateCache(k), clearCacheByPrefix of a prefix of k and
\* clearAllCache make it absent; and no other step, the passing of time
\* and operations on other keys included, changes what getCache(k) returns
C20_NoAutomaticExpiry ==
    /\ [](mcOps = 0 => \A k \in Keys : Absent(getCache(k)))
    /\ [][\A k \in Keys :
            /\ SetsKey(k) => getCache(k)' = Num(mcOp'.arg)
            /\ RemovesKey(k) => Absent(getCache(k)')
            /\ (~SetsKey(k) /\ ~RemovesKey(k))
               => SameResult(getCache(k)', getCache(k))]_vars

\* C21: clearCacheByPrefix(p) removes every entry whose key starts with p
\* and leaves every other entry as it was; after clearAllCache getCache is
\* absent and isCacheValid is false for every key and every max age
C21_BulkRemoval ==
    [][/\ (mcOps' # mcOps /\ mcOp'.op = "clearByPrefix")
          => \A k \in Keys :
                IF StartsWith(k, mcOp'.key)
                THEN ~HasEntry(k)' /\ Absent(getCache(k)')
                ELSE EntryAt(k)' = EntryAt(k)
       /\ (mcOps' # mcOps /\ mcOp'.op = "clearAll")
          => \A k \in Keys :
                /\ Absent(getCache(k)')
                /\ \A a \in MaxAges : ~isCacheValid(k, a)']_vars

\* C22: isCacheValid(k) called without a max age is false for an entry
\* written more than 10 minutes ago
C22_DefaultExpiry ==
    \A k \in Keys \ {KeyProto} :
        (HasEntry(k) /\ now - EntryAt(k).timestamp > MAX_CACHE_AGE)
        => ~isCacheValid(k, Omitted)

\* C23: refreshTasks(true) of a mounted hook that is online starts a load
\* whatever loadingRef, lastLoadTimeRef and the cache hold: it aborts the
\* signal of every load in progress, sets retryCount to 0, and the load it
\* starts issues its query (at once in a development build; in a production
\* build the load is left in progress with its signal not aborted)
C23_ForcedRefreshBypassesGates ==
    [][(/\ RefreshTasks(TRUE)
        /\ effect.cl.user \in Users /\ isMountedRef /\ ~isOffline)
       => /\ nCalls' = nCalls + 1
          /\ retryCount' = 0
          /\ \A c \in CallIds : InProgress(c) => calls'[c].aborted
          /\ devMode => count'.queries = count.queries + 1
          /\ ~devMode => /\ calls'[nCalls'].pc = "pre"
                         /\ ~calls'[nCalls'].aborted]_vars

ClearPending ==
    \E i \in 1..Len(timers) : timers[i].kind = "clearLoadingRef"

\* C24: while loadingRef is set, an invocation is in progress or a timeout
\* that clears it is pending; every invocation that ends leaves such a
\* timeout, due LOADING_REF_DELAY later; and a set loadingRef is cleared
\* in the end
C24_MarkerAlwaysReleased ==
    /\ [](loadingRef => (ClearPending \/ \E c \in CallIds : InProgress(c)))
    /\ [][\A c \in CallIds : Settles(c)
            => \E i \in 1..Len(timers') :
                  /\ timers'[i].kind = "clearLoadingRef"
                  /\ timers'[i].due = now + LOADING_REF_DELAY]_vars
    /\ [](loadingRef => <>(~loadingRef))

C24_Witness ==
    /\ ~loadingRef /\ nCalls = 2 /\ ~ClearPending
    /\ \A c \in CallIds : ~InProgress(c)
    /\ calls[1].pc = "done" /\ calls[2].pc = "done"
    /\ error # NoError

OfflineErrors ==
    {"Using cached tasks while offline", "Cannot fetch tasks while offline"}

\* C25: a load called while isOffline is true never issues the task query;
\* when it ends, or returns at once from a fresh cache entry, tasks is the
\* cached list, or the empty list without a cache entry, and error reports
\* the offline condition
C25_OfflineReadsCacheOnly ==
    [][/\ \A c \in CallIds :
            (calls'[c].pc = "fetch" /\ calls[c].pc # "fetch") => ~calls'[c].off
       /\ \A c \in CallIds :
            (/\ Settles(c) /\ calls[c].off /\ ~calls[c].aborted
             /\ mounted /\ isMountedRef /\ mounted' /\ effect'.cl = effect.cl)
            => /\ tasks' = IF HasCache(Cur, calls[c].user)
                           THEN tasksCache[calls[c].user].tasks ELSE <<>>
               /\ error' \in OfflineErrors
       /\ (/\ ev'.load = "cached" /\ isOffline /\ effect.cl.off
           /\ mounted /\ isMountedRef /\ effect'.cl = effect.cl)
          => /\ tasks' = tasksCache[ev'.user].tasks
             /\ error' \in OfflineErrors]_vars

\* C26: while the task query of a load whose signal is not aborted is
\* outstanding, loadingRef is set
C26_MarkerCoversCurrentRequest ==
    \A c \in CallIds :
        (calls[c].pc = "fetch" /\ ~calls[c].aborted) => loadingRef

\* nothing is pending: no invocation is suspended and no timeout is set
Quiescent == timers = <<>> /\ \A c \in CallIds : ~InProgress(c)

\* C27: with a remote that answers every query with a list of tasks, the
\* hook comes to show a fetched list with loading = false, and it is never
\* at rest with loading = false, error = null and no tasks while no fetched
\* list was ever applied
C27_NoLoadSilentlyDropped ==
    /\ [](~(/\ Quiescent /\ mounted /\ effect.cl # NoClosure
            /\ ~loading /\ error = NoError /\ tasks = <<>>
            /\ lastLoadTimeRef = 0))
    /\ <>(~loading /\ tasks \in FetchLists)

\* C28: the tasks shown are none or the list fetched or cached for the
\* current userId, and without a userId no tasks are shown and loading is
\* false
C28_SubjectIsolation ==
    /\ userId \in Users => tasks \in {<<>>, RemoteTasks(userId)}
    /\ userId = NoUser => (tasks = <<>> /\ ~loading)

\* C29: a session check that throws is retried at most 3 times, the n-th
\* retry min(1000 * 2^n, 10000) ms after the failure, and after the third
\* failed retry no retry is pending and loading is false
C29_SessionRetryBounded ==
    /\ auth.retries <= 3
    /\ auth.timer # NoTimer
          => auth.delay = Min(1000 * Pow2(auth.retries), 10000)
    /\ (auth.retries = 3 /\ auth.pc = "idle"
        /\ auth.error # NoError /\ auth.user = NoSession)
          => (auth.timer = NoTimer /\ ~auth.loading)

\* C30: a bulk status update sets the new status on every selected task of
\* the local list before any remote answer; when one of its remote updates
\* fails the local list becomes the tasks prop again; and at rest no task
\* of the local list has a status that is neither the prop's nor the
\* remote's
C30_BulkStatusRollsBack ==
    /\ [][\A st \in {"in-progress", "completed"} :
            BulkStatusClick(st)
               => \A id \in Elems(admin.selectedTaskIds) :
                     admin'.localTasks[id] \in {st, NotListed}]_vars
    /\ [][\A call \in BulkCalls :
            (BulkCallRejects(call) /\ call.kind = "status"
             /\ admin.op.n = call.n)
               => admin'.localTasks = admin.tasks]_vars
    /\ []((admin.op = NoBulk /\ admin.inflight = {})
             => \A id \in AdminTaskIds :
                   admin.localTasks[id] \in {admin.tasks[id], admin.remote[id]})
====
